---------------------------- MODULE Spec2Model ----------------------------
(***************************************************************************)
(* A model of coverage_estimator3.py: the histogram loader (load_dist,     *)
(* get_trim), the memoised probability model and its repeat extension      *)
(* (compute_probabilities, compute_repeat_table,                           *)
(* compute_probabilities_with_repeats, the two log-likelihoods), and the   *)
(* optimizer pipeline (main, compute_coverage[_repeats], minimize_grid,    *)
(* minimize_hillclimbing).                                                 *)
(*                                                                         *)
(* Number representation.  Python lists are 0-based, TLA+ sequences are    *)
(* 1-based: the Python element l[j] is the TLA+ element l[j + 1] (Idx).    *)
(* Python's None is the integer -1 where the value is otherwise a natural  *)
(* number.                                                                 *)
(***************************************************************************)
EXTENDS Integers, Sequences, FiniteSets, TLC

VARIABLES
    \* ---- main / load_dist
    pc,             \* position of the single thread of control
    exc,            \* the exception that left the program ("none" if none)
    args,           \* the parsed command line (argparse namespace)
    all_kmers, unique_kmers, observed_ones, hist,  \* what load_dist returned
    \* ---- the probability model and its two lru_cache memos
    pmodel,         \* the values the floating-point model yields (see ProbValue)
    qs,             \* the mixture weights <<q1, q2, q>> of the calls
    p_cache,        \* lru_cache of compute_probabilities
    r_cache,        \* lru_cache of compute_repeat_table
    p_recency,      \* history: every tuple compute_probabilities was called
                    \* with, least recently called first
    r_recency,      \* the same for compute_repeat_table
    p_last, r_last, \* history: the most recent lookup in each memo
    ll,             \* the most recent log-likelihood call and its result
    rp,             \* the closure compute_probabilities_with_repeats returned
    n_fresh,        \* number of parameter points evaluated so far
    \* ---- the optimizer pipeline
    cov, e,         \* main: the current estimate (e in tenths; None before)
    apx,            \* history: what compute_coverage_apx returned
    guessed,        \* compute_coverage[_repeats]: <<guessed_c, guessed_e>>
    cur,            \* compute_coverage[_repeats]: the point held in cov, e
    cur_from,       \* history: the routine whose result cur is
    calls,          \* history: the optimization routines called, in order
    stage,          \* which of the two optional strategies is next
    initial_guess,  \* minimize_grid / minimize_hillclimbing: the parameter
    min_val, min_args, step, diff, n_iter,  \* ... and their locals
    taken,          \* candidates of the current round already drawn
    cand,           \* the loop variable args of the candidate loop
    interrupted,    \* history: the running strategy caught KeyboardInterrupt
    returned,       \* history: the most recent return of a strategy
    \* ---- the candidates of the two strategies, with their coordinates
    gen_kind,       \* the strategy running: "grid" or "hillclimb"
    gen_bounds,     \* its parameter bounds
    gen_initial,    \* its parameter initial_guess, as a vector of coordinates
    gen_min_args,   \* its local min_args, as a vector of coordinates
    gen_step,       \* its local step (see StepLog)
    gen_iter,       \* its local n_iter
    gen_r,          \* generate_grid: the coordinate random.randrange chose
    gen_grid,       \* the candidates generate_grid returned for the round
    gen_taken,      \* number of candidates of the round already evaluated
    gen_args,       \* the loop variable args: the candidate evaluated last
    gen_start       \* history: min_args at the start of the round

loadVars == <<args, all_kmers, unique_kmers, observed_ones, hist>>
likVars == <<pmodel, qs, p_cache, r_cache, p_recency, r_recency, p_last, r_last,
             ll, rp, n_fresh>>
optVars == <<cov, e, apx, guessed, cur, cur_from, calls, stage, initial_guess,
             min_val, min_args, step, diff, n_iter, taken, cand, interrupted,
             returned>>
genVars == <<gen_kind, gen_bounds, gen_initial, gen_min_args, gen_step, gen_iter,
             gen_r, gen_grid, gen_taken, gen_args, gen_start>>
vars == <<pc, exc, loadVars, likVars, optVars, genVars>>

None == 0 - 1

Max(a, b) == IF a >= b THEN a ELSE b
Min(a, b) == IF a <= b THEN a ELSE b

\* l[j] of a Python list
Idx(l, j) == l[j + 1]

\* l[:t] of a Python list, t None or >= 0
Slice(l, t) == IF t = None THEN l ELSE SubSeq(l, 1, Min(t, Len(l)))

RECURSIVE Pow(_, _)
Pow(b, n) == IF n = 0 THEN 1 ELSE b * Pow(b, n - 1)

RECURSIVE SumSeq(_)
SumSeq(s) == IF s = <<>> THEN 0 ELSE Head(s) + SumSeq(Tail(s))

(***************************************************************************)
(* Bounds of the input histogram files.                                    *)
(***************************************************************************)
MaxLines == 2
MaxLevel == 3
MaxCount == 2
MaxTrim == 2
MaxPrecision == 2

(***************************************************************************)
(* A histogram file: a sequence of lines <<multiplicity, count>>, one line *)
(* per multiplicity level, in any order.                                   *)
(***************************************************************************)
Line == (0..MaxLevel) \X (0..MaxCount)

Files ==
    UNION {{f \in [1..n -> Line] : \A a, b \in 1..n : a # b => f[a][1] # f[b][1]}
           : n \in 0..MaxLines}

(***************************************************************************)
(* get_trim: the first index at which the running share of the total,      *)
(* rounded to `precision` decimals when precision is truthy, equals 1.     *)
(* round(s / ss, p) == 1 exactly when s / ss > 1 - 0.5 * 10^-p: the tie    *)
(* s / ss = 1 - 0.5 * 10^-p is a double just below the decimal tie for     *)
(* p = 1, 2 (0.95, 0.995) and rounds down.  With precision None or 0 the   *)
(* test is s / ss == 1.                                                    *)
(* It raises ZeroDivisionError when the list is not empty and sums to 0    *)
(* (r = s / ss with ss = 0.0).  The result is [raised, trim].              *)
(***************************************************************************)
RoundsToOne(s, ss, precision) ==
    IF precision = None \/ precision = 0
    THEN s = ss
    ELSE 2 * s * Pow(10, precision) > (2 * Pow(10, precision) - 1) * ss

get_trim(h, precision) ==
    LET ss == SumSeq(h)
        hits == {i \in 0..(Len(h) - 1) :
                    RoundsToOne(SumSeq(SubSeq(h, 1, i + 1)), ss, precision)}
    IN  IF Len(h) > 0 /\ ss = 0
        THEN [raised |-> "ZeroDivisionError", trim |-> None]
        ELSE [raised |-> "none",
              trim |-> IF hits = {} THEN None
                       ELSE CHOOSE i \in hits : \A k \in hits : i <= k]

(***************************************************************************)
(* load_dist, the loop over the lines (lines 67-78): hist is the           *)
(* defaultdict(int), a function on the levels seen so far.                 *)
(***************************************************************************)
ReadStart ==
    [hist |-> <<>>, max_hist |-> 0, observed_ones |-> 0,
     unique_kmers |-> 0, all_kmers |-> 0]

RECURSIVE ReadLines(_, _)
ReadLines(lines, st) ==
    IF lines = <<>> THEN st
    ELSE LET i == Head(lines)[1]
             cnt == Head(lines)[2]
         IN  ReadLines(Tail(lines),
                 [hist |-> (i :> cnt) @@ st.hist,
                  max_hist |-> Max(st.max_hist, i),
                  observed_ones |-> IF i = 1 THEN cnt ELSE st.observed_ones,
                  unique_kmers |-> IF i >= 2 THEN st.unique_kmers + cnt
                                   ELSE st.unique_kmers,
                  all_kmers |-> IF i >= 2 THEN st.all_kmers + i * cnt
                                ELSE st.all_kmers])

\* hist[b] of the defaultdict(int)
DictGet(d, b) == IF b \in DOMAIN d THEN d[b] ELSE 0

\* line 80: hist_l = [hist[b] for b in range(max_hist)]
DenseRange(max_hist) == 0..(max_hist - 1)

Dense(d, max_hist) ==
    [b1 \in 1..Cardinality(DenseRange(max_hist)) |-> DictGet(d, b1 - 1)]

(***************************************************************************)
(* load_dist(fname, autotrim, trim): the record of the four values it      *)
(* returns, or raised |-> the exception get_trim raised.                   *)
(***************************************************************************)
load_dist(fname, autotrim, trim) ==
    LET st == ReadLines(fname, ReadStart)
        hist_l == Dense(st.hist, st.max_hist)
        auto == autotrim # None /\ autotrim # 0
        gt == get_trim(hist_l, autotrim)
        t == IF auto THEN gt.trim ELSE trim
    IN  IF auto /\ gt.raised # "none"
        THEN [raised |-> gt.raised]
        ELSE [raised |-> "none",
              all_kmers |-> st.all_kmers,
              unique_kmers |-> st.unique_kmers,
              observed_ones |-> st.observed_ones,
              hist_l |-> Slice(hist_l, t)]

(***************************************************************************)
(* main, line 486: the call of load_dist.                                  *)
(***************************************************************************)
MainLoad ==
    /\ pc = "main_486"
    /\ LET res == load_dist(args.input_histogram, args.autotrim, args.trim)
       IN  IF res.raised # "none"
           THEN /\ exc' = res.raised
                /\ pc' = "raised"
                /\ UNCHANGED <<all_kmers, unique_kmers, observed_ones, hist>>
           ELSE /\ all_kmers' = res.all_kmers
                /\ unique_kmers' = res.unique_kmers
                /\ observed_ones' = res.observed_ones
                /\ hist' = res.hist_l
                /\ pc' = "main_489"
                /\ exc' = exc
    /\ UNCHANGED <<args, likVars, optVars, genVars>>

AutotrimVals == {None} \cup (0..MaxPrecision)
TrimVals == {None} \cup (0..MaxTrim)

NoPoint == [src |-> "none"]

\* the variables of the candidate generation while no strategy runs
GenIdle ==
    /\ gen_kind = "none"
    /\ gen_bounds = None
    /\ gen_initial = <<>>
    /\ gen_min_args = <<>>
    /\ gen_step = 0
    /\ gen_iter = 0
    /\ gen_r = None
    /\ gen_grid = <<>>
    /\ gen_taken = 0
    /\ gen_args = <<>>
    /\ gen_start = <<>>

\* the optimizer's variables before main reaches it
OptIdle ==
    /\ cov = None
    /\ e = None
    /\ apx = <<>>
    /\ guessed = <<>>
    /\ cur = NoPoint
    /\ cur_from = "none"
    /\ calls = <<>>
    /\ stage = 0
    /\ initial_guess = NoPoint
    /\ min_val = 0
    /\ min_args = NoPoint
    /\ step = 0
    /\ diff = 0
    /\ n_iter = 0
    /\ taken = 0
    /\ cand = NoPoint
    /\ interrupted = FALSE
    /\ returned = [by |-> "none"]

NoLookup == [looked |-> FALSE]
NoCall == [fn |-> "none"]

\* the state of the memos and of the model before the first call
LikIdle ==
    /\ pmodel = <<>>
    /\ qs = <<1, 1, 1>>
    /\ p_cache = <<>>
    /\ r_cache = <<>>
    /\ p_recency = <<>>
    /\ r_recency = <<>>
    /\ p_last = NoLookup
    /\ r_last = NoLookup
    /\ ll = NoCall
    /\ rp = NoCall
    /\ n_fresh = 0

InitLoad ==
    /\ pc = "main_486"
    /\ exc = "none"
    /\ args \in [input_histogram : Files, autotrim : AutotrimVals, trim : TrimVals]
    /\ all_kmers = 0
    /\ unique_kmers = 0
    /\ observed_ones = 0
    /\ hist = <<>>
    /\ LikIdle
    /\ OptIdle
    /\ GenIdle

NextLoad == MainLoad

SpecLoad == InitLoad /\ [][NextLoad]_vars


(***************************************************************************)
(* C4 as stated.  With no trimming requested, the histogram load_dist      *)
(* returns has one entry per level 0..max_j, max_j the largest             *)
(* multiplicity of the file: the count of each line at its level (max_j    *)
(* included) and 0 at every level the file does not mention.               *)
(***************************************************************************)
FileLevels(f) == {f[n][1] : n \in 1..Len(f)}

MaxLevelOf(f) == CHOOSE m \in FileLevels(f) : \A x \in FileLevels(f) : x <= m

NoTrimming == args.autotrim \in {None, 0} /\ args.trim = None

C4_DenseUpToMaxLevel ==
    (pc = "main_489" /\ NoTrimming /\ args.input_histogram # <<>>) =>
        LET f == args.input_histogram
        IN  /\ Len(hist) = MaxLevelOf(f) + 1
            /\ \A n \in 1..Len(f) :
                   f[n][1] < Len(hist) /\ Idx(hist, f[n][1]) = f[n][2]
            /\ \A j \in 0..MaxLevelOf(f) :
                   j \notin FileLevels(f) => (j < Len(hist) /\ Idx(hist, j) = 0)

(***************************************************************************)
(*                 THE PROBABILITY MODEL AND ITS MEMOS                     *)
(*                                                                         *)
(* Numbers.  The error rate err is in tenths (ErrOne is err = 1.0), the    *)
(* coverage c in units.  A mixture weight q1, q2, q is a numerator over    *)
(* QDen; a prior weight b_o(o) is a numerator over BScale = QDen^MaxHist.  *)
(* The entries of the probability vector come out of exp, pow, comb and    *)
(* factorial in floating point (lines 119-133, 145-160), which have no     *)
(* exact counterpart here: pmodel[j] is the entry p_j[j], a natural        *)
(* number of arbitrary unit, fixed when the run starts.  What is modelled  *)
(* exactly is everything that is done with the entries: the shape of the   *)
(* vector, the memos, the convolution, the truncation and the mixture sum. *)
(***************************************************************************)
MaxHist == 4
PMax == 2

DEFAULT_K == 20
DEFAULT_READ_LENGTH == 100
CacheMaxsize == 100
ErrOne == 10
QDen == 2
BScale == Pow(QDen, MaxHist)

(***************************************************************************)
(* functools.lru_cache(maxsize): the memo is the sequence of its entries   *)
(* [key, value], least recently used first.  A hit moves the entry to the  *)
(* most recently used end and returns the stored value; a miss computes    *)
(* the value, drops the least recently used entry when the memo is full    *)
(* and appends the new entry.                                              *)
(***************************************************************************)
LruHas(cache, key) == \E i \in 1..Len(cache) : cache[i].key = key

LruPos(cache, key) == CHOOSE i \in 1..Len(cache) : cache[i].key = key

LruWithout(cache, i) == SubSeq(cache, 1, i - 1) \o SubSeq(cache, i + 1, Len(cache))

lru_cache_no_refresh(cache, key, computed) ==
    IF LruHas(cache, key)
    THEN [cache |-> cache, value |-> cache[LruPos(cache, key)].value, hit |-> TRUE]
    ELSE [cache |-> Append(IF Len(cache) >= CacheMaxsize THEN Tail(cache) ELSE cache,
                           [key |-> key, value |-> computed]),
          value |-> computed, hit |-> FALSE]

lru_cache(cache, key, computed) ==
    IF LruHas(cache, key)
    THEN LET i == LruPos(cache, key)
         IN  [cache |-> Append(LruWithout(cache, i), cache[i]),
              value |-> cache[i].value, hit |-> TRUE]
    ELSE [cache |-> Append(IF Len(cache) >= CacheMaxsize THEN Tail(cache) ELSE cache,
                           [key |-> key, value |-> computed]),
          value |-> computed, hit |-> FALSE]

(***************************************************************************)
(* compute_probabilities (the decorated function's body, lines 143-161):   *)
(* p_j = [None] + [... for j in range(1, max_hist)].                       *)
(***************************************************************************)
ProbValue(r, k, c, err, j) == pmodel[j]

compute_probabilities(r, k, c, err, max_hist) ==
    <<None>> \o [j \in 1..(max_hist - 1) |-> ProbValue(r, k, c, err, j)]

(***************************************************************************)
(* compute_repeat_table (the body, lines 176-195), given the vector that   *)
(* its call of compute_probabilities returned.                             *)
(***************************************************************************)
ConvolveRow(p_oj, o, hist_size) ==
    <<<<None>>>> \o
    [j \in 1..(hist_size - 1) |->
        SumSeq([i \in 1..(j - 1) |-> Idx(Idx(p_oj, 1), i) * Idx(Idx(p_oj, o - 1), j - i)])]

RECURSIVE RepeatRows(_, _, _, _)
RepeatRows(p_oj, o, stop, hist_size) ==
    IF o >= stop THEN p_oj
    ELSE RepeatRows(Append(p_oj, ConvolveRow(p_oj, o, hist_size)), o + 1, stop, hist_size)

compute_repeat_table(p_j, hist_size, treshold_o) ==
    LET first == <<<<None>>, <<None>> \o [j \in 1..(hist_size - 1) |-> Idx(p_j, j)]>>
        stop == IF treshold_o = None THEN hist_size ELSE treshold_o
    IN  RepeatRows(first, 2, stop, hist_size)

(***************************************************************************)
(* The two decorated functions as they are called: the memo lookups.       *)
(* CachedRepeatTable returns the two memos after the call, the table and   *)
(* what each lookup found (p.looked is FALSE when the table was a hit and  *)
(* compute_probabilities was not called).                                  *)
(***************************************************************************)
CachedProbabilities(pcache, r, k, c, err, max_hist) ==
    lru_cache(pcache, <<r, k, c, err, max_hist>>,
              compute_probabilities(r, k, c, err, max_hist))

CachedRepeatTable(pcache, rcache, r, k, c, err, hist_size, treshold_o) ==
    LET key == <<r, k, c, err, hist_size, treshold_o>>
        inner == CachedProbabilities(pcache, r, k, c, err, hist_size)
        outer == lru_cache(rcache, key,
                           compute_repeat_table(inner.value, hist_size, treshold_o))
    IN  [p_cache |-> IF outer.hit THEN pcache ELSE inner.cache,
         r_cache |-> outer.cache,
         value |-> outer.value,
         r |-> [key |-> key, hit |-> outer.hit, value |-> outer.value],
         p |-> IF outer.hit THEN NoLookup
               ELSE [looked |-> TRUE, key |-> <<r, k, c, err, hist_size>>,
                     hit |-> inner.hit, value |-> inner.value]]

(***************************************************************************)
(* compute_probabilities_with_repeats (lines 198-223).                     *)
(* treshold is None or a number of half units of 1 / BScale; the default   *)
(* 1e-8 lies strictly between 0 and the smallest positive weight of the    *)
(* grid (1 / BScale), as does half a unit: TresholdDefault is 1.           *)
(***************************************************************************)
TresholdDefault == 1

b_o(o, q) ==
    IF o = 1 THEN q[1] * Pow(QDen, MaxHist - 1)
    ELSE IF o = 2 THEN (QDen - q[1]) * q[2] * Pow(QDen, MaxHist - 2)
    ELSE (QDen - q[1]) * (QDen - q[2]) * q[3] * Pow(QDen - q[3], o - 3)
         * Pow(QDen, MaxHist - o)

BelowTreshold(b, treshold) == 2 * b < treshold

\* lines 207-212
FindTresholdO(q, hist_size, treshold) ==
    LET small == {o \in 1..(hist_size - 1) : BelowTreshold(b_o(o, q), treshold)}
    IN  IF treshold = None \/ small = {} THEN None
        ELSE CHOOSE o \in small : \A x \in small : o <= x

\* lines 218-221: the end of the range of the mixture sum
SumStopInclusive(j, treshold_o) ==
    IF treshold_o # None THEN Min(j + 1, treshold_o + 1) ELSE j + 1

SumStopShort(j, treshold_o) ==
    IF treshold_o # None THEN Min(j, treshold_o) ELSE j

SumStop(j, treshold_o) ==
    IF treshold_o # None THEN Min(j + 1, treshold_o) ELSE j + 1

\* the (o, j) entries of the table that one evaluation of p_j(j) reads
Reads(cl, j) == {<<o, j>> : o \in 1..(SumStop(j, cl.treshold_o) - 1)}

\* p_oj[o][j] exists: the table has a row o and the row has an entry j
Built(p_oj, o, j) == o < Len(p_oj) /\ j < Len(Idx(p_oj, o))

\* one evaluation of p_j(j) reads only entries that exist (IndexError otherwise)
ReadsBuilt(cl, j) == \A x \in Reads(cl, j) : Built(cl.p_oj, x[1], x[2])

\* the closure p_j, evaluated at j
PJ(cl, j) ==
    SumSeq([o \in 1..(SumStop(j, cl.treshold_o) - 1) |->
                b_o(o, cl.q) * Idx(Idx(cl.p_oj, o), j)])

ProbabilitiesWithRepeats(pcache, rcache, r, k, c, err, q, hist_size, treshold) ==
    LET treshold_o == FindTresholdO(q, hist_size, treshold)
        t == CachedRepeatTable(pcache, rcache, r, k, c, err, hist_size, treshold_o)
    IN  [p_cache |-> t.p_cache, r_cache |-> t.r_cache, p |-> t.p, r |-> t.r,
         closure |-> [fn |-> "compute_probabilities_with_repeats",
                      q |-> q, hist_size |-> hist_size, treshold |-> treshold,
                      treshold_o |-> treshold_o, p_oj |-> t.value]]

(***************************************************************************)
(* The log-likelihoods (lines 164-172, 226-230).  The value is a sum of    *)
(* logarithms: it is "-inf" when a level with a non-zero count has a       *)
(* probability <= 0 (safe_log) and "finite" otherwise.  The value          *)
(* "IndexError" stands for the call raising IndexError: an evaluation of   *)
(* p_j(j) indexed an entry the repeat table does not have.                 *)
(***************************************************************************)
OutOfDomainLoose(c, err) == err < 0 \/ err > ErrOne \/ c <= 0

OutOfDomain(c, err) == err < 0 \/ err >= ErrOne \/ c <= 0

LogSum(h, P(_)) ==
    IF \E j \in 1..(Len(h) - 1) : Idx(h, j) # 0 /\ P(j) <= 0
    THEN "-inf" ELSE "finite"

(***************************************************************************)
(* History of the lookups: Touch records a call in the recency order; a    *)
(* tuple is Known when it was called before, and Recent when fewer than    *)
(* CacheMaxsize distinct other tuples were called since its last call.     *)
(***************************************************************************)
Touch(recency, key) ==
    LET Keep(x) == x # key IN Append(SelectSeq(recency, Keep), key)

Known(recency, key) == \E i \in 1..Len(recency) : recency[i] = key

Recent(recency, key) ==
    \E i \in 1..Len(recency) : recency[i] = key /\ Len(recency) - i < CacheMaxsize

Seen(recency, lookup) ==
    [looked |-> TRUE, key |-> lookup.key, hit |-> lookup.hit, value |-> lookup.value,
     known |-> Known(recency, lookup.key), recent |-> Recent(recency, lookup.key)]

(***************************************************************************)
(* The memos, the history and the last results as one record, so that the  *)
(* calls below are functions from the state before to the state after.     *)
(***************************************************************************)
Lik ==
    [p_cache |-> p_cache, r_cache |-> r_cache, p_recency |-> p_recency,
     r_recency |-> r_recency, p_last |-> p_last, r_last |-> r_last,
     ll |-> ll, rp |-> rp]

Becomes(st) ==
    /\ p_cache' = st.p_cache
    /\ r_cache' = st.r_cache
    /\ p_recency' = st.p_recency
    /\ r_recency' = st.r_recency
    /\ p_last' = st.p_last
    /\ r_last' = st.r_last
    /\ ll' = st.ll
    /\ rp' = st.rp

(***************************************************************************)
(* compute_loglikelihood(hist, r, k, c, err)                               *)
(***************************************************************************)
CallLoglikelihood(st, h, r, k, c, err) ==
    IF OutOfDomain(c, err)
    THEN [st EXCEPT !.ll = [fn |-> "compute_loglikelihood", c |-> c, err |-> err,
                            value |-> "-inf"]]
    ELSE LET key == <<r, k, c, err, Len(h)>>
             got == CachedProbabilities(st.p_cache, r, k, c, err, Len(h))
             P(j) == Idx(got.value, j)
         IN  [st EXCEPT
                 !.p_cache = got.cache,
                 !.p_recency = Touch(st.p_recency, key),
                 !.p_last = Seen(st.p_recency,
                                 [key |-> key, hit |-> got.hit, value |-> got.value]),
                 !.ll = [fn |-> "compute_loglikelihood", c |-> c, err |-> err,
                         value |-> LogSum(h, P)]]

(***************************************************************************)
(* The effect of one call of compute_probabilities_with_repeats on the     *)
(* memos and on the history.                                               *)
(***************************************************************************)
RepeatsEffect(st, got) ==
    [st EXCEPT
        !.p_cache = got.p_cache,
        !.r_cache = got.r_cache,
        !.r_recency = Touch(st.r_recency, got.r.key),
        !.r_last = Seen(st.r_recency, got.r),
        !.p_recency = IF got.p.looked THEN Touch(st.p_recency, got.p.key)
                      ELSE st.p_recency,
        !.p_last = IF got.p.looked THEN Seen(st.p_recency, got.p) ELSE st.p_last,
        !.rp = got.closure]

(***************************************************************************)
(* compute_loglikelihood_with_repeats(hist, r, k, c, err, q1, q2, q)       *)
(***************************************************************************)
CallLoglikelihoodWithRepeats(st, h, r, k, c, err, q) ==
    IF OutOfDomain(c, err)
    THEN [st EXCEPT !.ll = [fn |-> "compute_loglikelihood_with_repeats", c |-> c,
                            err |-> err, value |-> "-inf"]]
    ELSE LET got == ProbabilitiesWithRepeats(st.p_cache, st.r_cache, r, k, c, err, q,
                                             Len(h), TresholdDefault)
             P(j) == PJ(got.closure, j)
             raises == \E j \in 1..(Len(h) - 1) :
                           Idx(h, j) # 0 /\ ~ReadsBuilt(got.closure, j)
         IN  [RepeatsEffect(st, got) EXCEPT
                 !.ll = [fn |-> "compute_loglikelihood_with_repeats", c |-> c,
                         err |-> err,
                         value |-> IF raises THEN "IndexError" ELSE LogSum(h, P)]]

(***************************************************************************)
(* compute_probabilities_with_repeats called on its own, with a tolerance. *)
(***************************************************************************)
CallProbabilitiesWithRepeats(st, r, k, c, err, q, hist_size, treshold) ==
    RepeatsEffect(st, ProbabilitiesWithRepeats(st.p_cache, st.r_cache, r, k, c, err,
                                               q, hist_size, treshold))

(***************************************************************************)
(* SpecLik: the likelihood functions called, in any order and any number   *)
(* of times, on one histogram with one set of mixture weights.             *)
(***************************************************************************)
\* the points <<c, err>> of the calls: one inside the domain, three outside
LikPoints == {<<1, 1>>, <<0, 1>>, <<1, 0 - 1>>, <<1, ErrOne>>}
Tresholds == {None, TresholdDefault, BScale \div 2}
Weights == 0..QDen

\* the model's vectors: all zero, and two ramps
PModels ==
    {[j \in 1..(MaxHist - 1) |-> 0],
     [j \in 1..(MaxHist - 1) |-> 1 + (j % PMax)],
     [j \in 1..(MaxHist - 1) |-> (MaxHist - j) % (PMax + 1)]}

LikHists == {[j \in 1..n |-> 1] : n \in 0..MaxHist}

LikLoglikelihood ==
    /\ pc = "lik"
    /\ \E x \in LikPoints :
           Becomes(CallLoglikelihood(Lik, hist, args.read_length, args.kmer_size,
                                     x[1], x[2]))
    /\ UNCHANGED <<pc, exc, loadVars, genVars, optVars, pmodel, qs, n_fresh>>

LikLoglikelihoodWithRepeats ==
    /\ pc = "lik"
    /\ \E x \in LikPoints :
           Becomes(CallLoglikelihoodWithRepeats(Lik, hist, args.read_length,
                                                args.kmer_size, x[1], x[2], qs))
    /\ UNCHANGED <<pc, exc, loadVars, genVars, optVars, pmodel, qs, n_fresh>>

LikProbabilitiesWithRepeats ==
    /\ pc = "lik"
    /\ \E treshold \in Tresholds :
           Becomes(CallProbabilitiesWithRepeats(Lik, args.read_length,
                                                args.kmer_size, 1, 1, qs,
                                                Len(hist), treshold))
    /\ UNCHANGED <<pc, exc, loadVars, genVars, optVars, pmodel, qs, n_fresh>>

InitLik ==
    /\ pc = "lik"
    /\ exc = "none"
    /\ args = [read_length |-> DEFAULT_READ_LENGTH, kmer_size |-> DEFAULT_K]
    /\ all_kmers = 0
    /\ unique_kmers = 0
    /\ observed_ones = 0
    /\ hist \in LikHists
    /\ pmodel \in PModels
    /\ qs \in Weights \X Weights \X Weights
    /\ p_cache = <<>>
    /\ r_cache = <<>>
    /\ p_recency = <<>>
    /\ r_recency = <<>>
    /\ p_last = NoLookup
    /\ r_last = NoLookup
    /\ ll = NoCall
    /\ rp = NoCall
    /\ n_fresh = 0
    /\ OptIdle
    /\ GenIdle

NextLik ==
    \/ LikLoglikelihood
    \/ LikLoglikelihoodWithRepeats
    \/ LikProbabilitiesWithRepeats

SpecLik == InitLik /\ [][NextLik]_vars

(***************************************************************************)
(* C3.  A log-likelihood call with err < 0, err >= 1 or c <= 0 returns     *)
(* exactly -inf, raises nothing and leaves both memos as they were (the    *)
(* probability model is not called).                                       *)
(***************************************************************************)
C3_DomainGuard ==
    [][(ll' # ll /\ (ll'.err < 0 \/ ll'.err >= ErrOne \/ ll'.c <= 0))
         => (ll'.value = "-inf" /\ p_cache' = p_cache /\ r_cache' = r_cache
             /\ exc' = "none")]_vars

C3_Witness ==
    /\ ll.fn = "compute_loglikelihood_with_repeats"
    /\ ll.err >= ErrOne
    /\ ll.value = "-inf"
    /\ p_cache # <<>>
    /\ r_cache # <<>>

(***************************************************************************)
(* The repeat table of section 3 of the specification, computed from the   *)
(* model's vector alone: row 1 is the vector, row o the convolution of     *)
(* row 1 and row o - 1.                                                    *)
(***************************************************************************)
RECURSIVE RefTable(_, _)
RefTable(o, j) ==
    IF o = 1 THEN pmodel[j]
    ELSE SumSeq([i \in 1..(j - 1) |-> pmodel[i] * RefTable(o - 1, j - i)])

MixtureSum(q, j, last) == SumSeq([o \in 1..last |-> b_o(o, q) * RefTable(o, j)])

\* the smallest o in 1..hist_size-1 with b_o(o) below the tolerance, or None
OStar(cl) ==
    LET small == {o \in 1..(cl.hist_size - 1) : 2 * b_o(o, cl.q) < cl.treshold}
    IN  IF cl.treshold = None \/ small = {} THEN None
        ELSE CHOOSE o \in small : \A x \in small : o <= x

\* the index of the last row of a table
LastRow(p_oj) == Len(p_oj) - 1

(***************************************************************************)
(* C8 as amended.  With o* the truncation bound, p_j(j) is the sum over    *)
(* o = 1..min(j, o* - 1) of b_o(o) * p_oj[o][j] (the term o = o* is left   *)
(* out) and the table is built up to row max(1, o* - 1); when no bound is  *)
(* found, the sum is over o = 1..j and the table is built up to row        *)
(* max(1, hist_size - 1).                                                  *)
(***************************************************************************)
C8_MixtureSumStopsBelowBound ==
    rp.fn # "none" =>
        /\ rp.treshold_o = OStar(rp)
        /\ \A j \in 1..(rp.hist_size - 1) :
               PJ(rp, j) = MixtureSum(rp.q, j,
                               IF OStar(rp) = None THEN j ELSE Min(j, OStar(rp) - 1))
        /\ LastRow(rp.p_oj) =
               Max(1, (IF OStar(rp) = None THEN rp.hist_size ELSE OStar(rp)) - 1)

\* a bound o* = 3 is found, the dropped term has a positive weight and value
C8_Witness ==
    /\ rp.fn # "none"
    /\ rp.treshold_o = 3
    /\ rp.hist_size = MaxHist
    /\ b_o(3, rp.q) * RefTable(3, 3) > 0
    /\ PJ(rp, 3) > 0

(***************************************************************************)
(* C8 as stated: the sum runs over o = 1..min(j, o_star) and the table   *)
(* is built up to row o_star (o_star is the truncation bound).            *)
(***************************************************************************)
C8_MixtureSumIncludesBound ==
    (rp.fn # "none" /\ OStar(rp) # None) =>
        /\ \A j \in 1..(rp.hist_size - 1) :
               PJ(rp, j) = MixtureSum(rp.q, j, Min(j, OStar(rp)))
        /\ LastRow(rp.p_oj) = OStar(rp)

(***************************************************************************)
(* C9 as stated: every repeat count that the mixture sum of p_j(j) leaves  *)
(* out (o <= j, o not summed) has a prior weight below the tolerance.      *)
(***************************************************************************)
C9_DroppedWeightsNegligible ==
    (rp.fn # "none" /\ rp.treshold # None) =>
        \A j \in 1..(rp.hist_size - 1) : \A o \in 1..j :
            <<o, j>> \notin Reads(rp, j) => 2 * b_o(o, rp.q) < rp.treshold

(***************************************************************************)
(* SpecCache: the likelihood calls of one process (one run of main).       *)
(* main evaluates compute_loglikelihood at the initial guess (line 500);   *)
(* then the optimizer evaluates likelihood_f, which is the plain           *)
(* log-likelihood or the one with repeats (lines 237, 289, 509): at the    *)
(* guess x0 (lines 402, 456 and again for the report, lines 264, 318),     *)
(* and, in a round of hill-climbing, at the 2 * grid_depth candidates of   *)
(* the chosen coordinate (lines 436-437, 468-469), taken here to be points *)
(* not evaluated before.  The n-th new point has the coverage 2 + n; the   *)
(* error rate and the weights stay those of the guess.                     *)
(***************************************************************************)
grid_depth == 3
MaxRounds == 17

X0 == <<1, 1>>

FreshPoint(n) == <<2 + n, 1>>

likelihood_f(st, x) ==
    IF args.repeats
    THEN CallLoglikelihoodWithRepeats(st, hist, args.read_length, args.kmer_size,
                                      x[1], x[2], qs)
    ELSE CallLoglikelihood(st, hist, args.read_length, args.kmer_size, x[1], x[2])

\* likelihood_f at the new points number n, n + 1, ..., n + left - 1, in turn
RECURSIVE EvalFresh(_, _, _)
EvalFresh(st, n, left) ==
    IF left = 0 THEN st
    ELSE EvalFresh(likelihood_f(st, FreshPoint(n)), n + 1, left - 1)

CacheInitialGuess ==
    /\ pc = "main_500"
    /\ Becomes(CallLoglikelihood(Lik, hist, args.read_length, args.kmer_size,
                                 X0[1], X0[2]))
    /\ pc' = "cov_est"
    /\ UNCHANGED <<exc, loadVars, genVars, optVars, pmodel, qs, n_fresh>>

CacheEvalGuess ==
    /\ pc = "cov_est"
    /\ Becomes(likelihood_f(Lik, X0))
    /\ UNCHANGED <<pc, exc, loadVars, genVars, optVars, pmodel, qs, n_fresh>>

CacheHillclimbRound ==
    /\ pc = "cov_est"
    /\ n_fresh < MaxRounds * 2 * grid_depth
    /\ Becomes(EvalFresh(Lik, n_fresh, 2 * grid_depth))
    /\ n_fresh' = n_fresh + 2 * grid_depth
    /\ UNCHANGED <<pc, exc, loadVars, genVars, optVars, pmodel, qs>>

InitCache ==
    /\ pc = "main_500"
    /\ exc = "none"
    /\ args \in [read_length : {DEFAULT_READ_LENGTH}, kmer_size : {DEFAULT_K},
                 repeats : BOOLEAN]
    /\ all_kmers = 0
    /\ unique_kmers = 0
    /\ observed_ones = 0
    /\ hist = <<0, 1, 1>>
    /\ pmodel = <<1, 2>>
    /\ qs = <<1, 1, 1>>
    /\ p_cache = <<>>
    /\ r_cache = <<>>
    /\ p_recency = <<>>
    /\ r_recency = <<>>
    /\ p_last = NoLookup
    /\ r_last = NoLookup
    /\ ll = NoCall
    /\ rp = NoCall
    /\ n_fresh = 0
    /\ OptIdle
    /\ GenIdle

NextCache ==
    \/ CacheInitialGuess
    \/ CacheEvalGuess
    \/ CacheHillclimbRound

SpecCache == InitCache /\ [][NextCache]_vars

(***************************************************************************)
(* What a memo holds for a key is what the decorated function computes     *)
(* for that key.                                                           *)
(***************************************************************************)
ProbabilitiesOf(key) == compute_probabilities(key[1], key[2], key[3], key[4], key[5])

RepeatTableOf(key) == compute_repeat_table(ProbabilitiesOf(key), key[5], key[6])

(***************************************************************************)
(* C6 as amended.  A call of compute_probabilities or compute_repeat_table *)
(* returns the stored result without recomputing it exactly when fewer     *)
(* than 100 distinct other tuples were looked up in that memo since the    *)
(* last call with the same tuple; otherwise the entry has been evicted and *)
(* the result is computed again.  A stored entry is never modified, and a  *)
(* memo never holds more than 100 entries.                                 *)
(***************************************************************************)
C6_HitWhileRecent ==
    /\ Len(p_cache) <= CacheMaxsize
    /\ Len(r_cache) <= CacheMaxsize
    /\ p_last.looked => /\ p_last.hit = p_last.recent
                        /\ p_last.value = ProbabilitiesOf(p_last.key)
    /\ r_last.looked => /\ r_last.hit = r_last.recent
                        /\ r_last.value = RepeatTableOf(r_last.key)
    /\ \A i \in 1..Len(p_cache) : p_cache[i].value = ProbabilitiesOf(p_cache[i].key)
    /\ \A i \in 1..Len(r_cache) : r_cache[i].value = RepeatTableOf(r_cache[i].key)

\* both memos are full, and the guess is looked up again and found
C6_Witness ==
    /\ Len(p_cache) = CacheMaxsize
    /\ Len(r_cache) = CacheMaxsize
    /\ r_last.looked /\ r_last.known /\ r_last.hit
    /\ p_last.looked /\ ~p_last.hit

(***************************************************************************)
(* C6 as stated: once a tuple has been called, every later call with the   *)
(* same tuple is a hit.                                                    *)
(***************************************************************************)
C6_HitOnceCalled ==
    /\ p_last.looked => (p_last.known => p_last.hit)
    /\ r_last.looked => (r_last.known => r_last.hit)


(***************************************************************************)
(* The optimizer pipeline: main from line 486 on, compute_coverage and     *)
(* compute_coverage_repeats, minimize_hillclimbing and minimize_grid.      *)
(*                                                                         *)
(* The strategies see the objective only through the values it returns.    *)
(* A parameter vector is therefore a record [src, f]: the routine that     *)
(* produced the vector and the value likelihood_f has at it.  The value    *)
(* is drawn when the vector is produced, from Vals, in units of 0.05;      *)
(* INF stands for float('inf'), the value of the objective outside its     *)
(* domain.  The coordinates are kept for the initial guess only (cov, e).  *)
(***************************************************************************)
INF == 1000
Tenth == 2
One == 20
MaxGridCand == 2
MaxHillCand == 1

Vals == {0, Tenth, One \div 2 + Tenth, One + Tenth, INF}

Point(src, f) == [src |-> src, f |-> f]

\* min_val - val of line 418, in IEEE arithmetic (val < min_val)
Minus(a, b) == IF a = INF THEN INF ELSE a - b

\* diff + x of line 418
Plus(d, x) == IF d = INF \/ x = INF THEN INF ELSE d + x

(***************************************************************************)
(* compute_coverage_apx.  With no distinct k-mer seen twice or more the    *)
(* guess is (0.0, 1.0).  Otherwise the guess comes out of floating-point   *)
(* formulas and a numeric inverse: either estimated_p > 0 and the guess    *)
(* is some (coverage > 0, e < 1), or estimated_p = 0, e = 1 - 0 ** (1/k)   *)
(* = 1 and the guess is (0.0, 1.0) again.                                  *)
(***************************************************************************)
compute_coverage_apx(a_kmers, u_kmers, o_ones, k, r) ==
    IF u_kmers = 0
    THEN {<<0, ErrOne>>}
    ELSE {<<2, 1>>, <<0, ErrOne>>}

\* line 505
NeedsFallbackZeroErr(c, err) == c = 0 /\ err = 0

NeedsFallback(c, err) == c = 0 /\ err = ErrOne

\* lines 489-493: --ll-only; without -c the coverage is None and c <= 0 raises
MainLlOnly ==
    /\ pc = "main_489"
    /\ args.ll_only
    /\ IF args.coverage = None
       THEN /\ exc' = "TypeError"
            /\ pc' = "raised"
            /\ UNCHANGED likVars
       ELSE /\ Becomes(CallLoglikelihood(Lik, hist, args.read_length, args.kmer_size,
                                         args.coverage, args.error_rate))
            /\ pc' = "done"
            /\ UNCHANGED <<exc, pmodel, qs, n_fresh>>
    /\ UNCHANGED <<loadVars, genVars, optVars>>

\* lines 495-499
MainGuess ==
    /\ pc = "main_489"
    /\ ~args.ll_only
    /\ \E g \in compute_coverage_apx(all_kmers, unique_kmers, observed_ones,
                                     args.kmer_size, args.read_length) :
           /\ cov' = g[1]
           /\ e' = g[2]
           /\ apx' = g
    /\ pc' = "main_500"
    /\ UNCHANGED <<exc, loadVars, genVars, likVars, guessed, cur, cur_from, calls, stage,
                   initial_guess, min_val, min_args, step, diff, n_iter, taken,
                   cand, interrupted, returned>>

\* lines 500-502: the log-likelihood of the guess, for the message
MainGuessLoglikelihood ==
    /\ pc = "main_500"
    /\ Becomes(CallLoglikelihood(Lik, hist, args.read_length, args.kmer_size, cov, e))
    /\ pc' = "main_505"
    /\ UNCHANGED <<exc, loadVars, genVars, optVars, pmodel, qs, n_fresh>>

\* lines 505-514: the fallback, and the call of cov_est up to its line 240
MainFallback ==
    /\ pc = "main_505"
    /\ IF NeedsFallback(cov, e)
       THEN cov' = 1 /\ e' = ErrOne \div 2
       ELSE cov' = cov /\ e' = e
    /\ guessed' = <<cov', e'>>
    /\ pc' = "cc_241"
    /\ UNCHANGED <<exc, loadVars, genVars, likVars, apx, cur, cur_from, calls, stage,
                   initial_guess, min_val, min_args, step, diff, n_iter, taken,
                   cand, interrupted, returned>>

(***************************************************************************)
(* compute_coverage (lines 240-280) and compute_coverage_repeats (lines    *)
(* 292-339): args.repeats selects one of them; they share the control      *)
(* flow.  minimize runs first; then come the two optional strategies, in   *)
(* the order of the two if statements (lines 248 and 255, 301 and 308).    *)
(***************************************************************************)
StrategyOrderGridFirst == <<"grid", "hillclimb">>

StrategyOrder == <<"hillclimb", "grid">>

\* use_hillclimb and use_grid, as main passes them (lines 513-514)
Uses(strategy) == IF strategy = "grid" THEN args.grid ELSE args.hillclimbing

\* the first line of each strategy
Entry(strategy) == IF strategy = "grid" THEN "g_402" ELSE "h_456"

optLocals == <<initial_guess, min_val, min_args, step, diff, n_iter, taken, cand>>

\* the frame of a strategy is gone once it has returned or raised
LocalsGone ==
    /\ initial_guess' = NoPoint
    /\ min_val' = 0
    /\ min_args' = NoPoint
    /\ step' = 0
    /\ diff' = 0
    /\ n_iter' = 0
    /\ taken' = 0
    /\ cand' = NoPoint

\* lines 241-246 (294-299): res = minimize(likelihood_f, x0, ...); cov, e = res.x
CovMinimize ==
    /\ pc = "cc_241"
    /\ \E f \in Vals : cur' = Point("minimize", f)
    /\ cur_from' = "minimize"
    /\ calls' = Append(calls, [strategy |-> "minimize", start |-> "x0"])
    /\ stage' = 1
    /\ pc' = "cc_strategy"
    /\ UNCHANGED <<exc, loadVars, genVars, likVars, cov, e, apx, guessed, optLocals,
                   interrupted, returned>>

\* KeyboardInterrupt inside minimize: compute_coverage has no handler
CovMinimizeInterrupt ==
    /\ pc = "cc_241"
    /\ calls' = Append(calls, [strategy |-> "minimize", start |-> "x0"])
    /\ exc' = "KeyboardInterrupt"
    /\ pc' = "raised"
    /\ UNCHANGED <<loadVars, genVars, likVars, cov, e, apx, guessed, cur, cur_from, stage,
                   optLocals, interrupted, returned>>

\* lines 248-251 and 255-258: the strategy is asked for and called with [cov, e]
CovCallStrategy ==
    /\ pc = "cc_strategy"
    /\ stage <= Len(StrategyOrder)
    /\ Uses(StrategyOrder[stage])
    /\ calls' = Append(calls, [strategy |-> StrategyOrder[stage], start |-> cur_from])
    /\ initial_guess' = cur
    /\ interrupted' = FALSE
    /\ returned' = [by |-> "none"]
    /\ pc' = Entry(StrategyOrder[stage])
    /\ UNCHANGED <<exc, loadVars, genVars, likVars, cov, e, apx, guessed, cur, cur_from,
                   stage, min_val, min_args, step, diff, n_iter, taken, cand>>

\* lines 248 and 255: the strategy is not asked for
CovSkipStrategy ==
    /\ pc = "cc_strategy"
    /\ stage <= Len(StrategyOrder)
    /\ ~Uses(StrategyOrder[stage])
    /\ stage' = stage + 1
    /\ UNCHANGED <<pc, exc, loadVars, genVars, likVars, cov, e, apx, guessed, cur, cur_from,
                   calls, optLocals, interrupted, returned>>

\* lines 261-280: the report, return cov, e; main lines 515-519
CovReport ==
    /\ pc = "cc_strategy"
    /\ stage > Len(StrategyOrder)
    /\ pc' = "done"
    /\ UNCHANGED <<exc, loadVars, genVars, likVars, optVars>>

\* a strategy returns min_args: cov, e = minimize_...(...)
StrategyReturn(strategy) ==
    /\ cur' = min_args
    /\ cur_from' = strategy
    /\ returned' = [by |-> strategy, point |-> min_args, initial |-> initial_guess,
                    interrupted |-> interrupted]
    /\ stage' = stage + 1
    /\ LocalsGone
    /\ pc' = "cc_strategy"
    /\ UNCHANGED <<exc, loadVars, genVars, likVars, cov, e, apx, guessed, calls, interrupted>>

\* KeyboardInterrupt outside the try block of a strategy
StrategyRaise ==
    /\ exc' = "KeyboardInterrupt"
    /\ pc' = "raised"
    /\ LocalsGone
    /\ UNCHANGED <<loadVars, genVars, likVars, cov, e, apx, guessed, cur, cur_from, calls,
                   stage, interrupted, returned>>

(***************************************************************************)
(* minimize_grid (lines 378-428).  step is a float near 1: it is kept in   *)
(* units of 1e-8, and the product of line 422 is rounded to the nearest    *)
(* unit as the float product is rounded to the nearest float.  A round     *)
(* draws at most MaxGridCand candidates from generate_grid.                    *)
(***************************************************************************)
StepOne == 100000000
StepStart == 110000000
StepStop == 100100000

\* line 422
Decay(st) == StepOne + (3 * (st - StepOne) + 2) \div 4

\* line 412
GridContinuesBoth(d, st) == d > Tenth /\ st > StepStop

GridContinues(d, st) == d > Tenth \/ st > StepStop

\* lines 417 and 470
ImprovesReversed(v, best) == v > best

Improves(v, best) == v < best

\* lines 402-410
GridEnter ==
    /\ pc = "g_402"
    /\ min_val' = initial_guess.f
    /\ min_args' = initial_guess
    /\ step' = StepStart
    /\ diff' = One
    /\ n_iter' = 0
    /\ pc' = "g_412"
    /\ UNCHANGED <<exc, loadVars, genVars, likVars, cov, e, apx, guessed, cur, cur_from,
                   calls, stage, initial_guess, taken, cand, interrupted, returned>>

\* lines 412-415: one more round
GridRound ==
    /\ pc = "g_412"
    /\ GridContinues(diff, step)
    /\ n_iter' = n_iter + 1
    /\ diff' = 0
    /\ taken' = 0
    /\ pc' = "g_415"
    /\ UNCHANGED <<exc, loadVars, genVars, likVars, cov, e, apx, guessed, cur, cur_from,
                   calls, stage, initial_guess, min_val, min_args, step, cand,
                   interrupted, returned>>

\* line 412: the loop ends
GridExit ==
    /\ pc = "g_412"
    /\ ~GridContinues(diff, step)
    /\ pc' = "g_427"
    /\ UNCHANGED <<exc, loadVars, genVars, likVars, optVars>>

\* lines 415-419: the next candidate, its value, the comparison
GridCandidate ==
    /\ pc = "g_415"
    /\ taken < MaxGridCand
    /\ taken' = taken + 1
    /\ \E f \in Vals :
           IF Improves(f, min_val)
           THEN /\ diff' = Plus(diff, Minus(min_val, f))
                /\ min_val' = f
                /\ cand' = Point("grid", f)
                /\ pc' = "g_420"
           ELSE UNCHANGED <<diff, min_val, cand, pc>>
    /\ UNCHANGED <<exc, loadVars, genVars, likVars, cov, e, apx, guessed, cur, cur_from,
                   calls, stage, initial_guess, min_args, step, n_iter,
                   interrupted, returned>>

\* line 420
GridAccept ==
    /\ pc = "g_420"
    /\ min_args' = cand
    /\ cand' = NoPoint
    /\ pc' = "g_415"
    /\ UNCHANGED <<exc, loadVars, genVars, likVars, cov, e, apx, guessed, cur, cur_from,
                   calls, stage, initial_guess, min_val, step, diff, n_iter, taken,
                   interrupted, returned>>

\* lines 415, 421-423: no candidate is left, the round ends
GridRoundEnd ==
    /\ pc = "g_415"
    /\ step' = IF diff < One THEN Decay(step) ELSE step
    /\ pc' = "g_412"
    /\ UNCHANGED <<exc, loadVars, genVars, likVars, cov, e, apx, guessed, cur, cur_from,
                   calls, stage, initial_guess, min_val, min_args, diff, n_iter,
                   taken, cand, interrupted, returned>>

\* KeyboardInterrupt inside the try block (lines 411-423).  Of the locals only
\* min_args and n_iter are read after the loop; the others are dropped here.
GridInterrupt ==
    /\ pc \in {"g_412", "g_415", "g_420"}
    /\ interrupted' = TRUE
    /\ min_val' = 0
    /\ taken' = 0
    /\ cand' = NoPoint
    /\ pc' = "g_425"
    /\ UNCHANGED <<exc, loadVars, genVars, likVars, cov, e, apx, guessed, cur, cur_from,
                   calls, stage, initial_guess, min_args, step, diff, n_iter,
                   returned>>

\* KeyboardInterrupt before the try block, in the handler or after it
GridInterruptOutside ==
    /\ pc \in {"g_402", "g_425", "g_427"}
    /\ StrategyRaise

\* lines 424-425
GridExcept ==
    /\ pc = "g_425"
    /\ pc' = "g_427"
    /\ UNCHANGED <<exc, loadVars, genVars, likVars, optVars>>

\* lines 427-428
GridReturn ==
    /\ pc = "g_427"
    /\ StrategyReturn("grid")

(***************************************************************************)
(* minimize_hillclimbing (lines 431-479): a fixed number of rounds, each   *)
(* over the candidates along one randomly chosen coordinate.  The flag     *)
(* modified is only printed.                                               *)
(***************************************************************************)
iterations == 1000

\* lines 456-463
HillEnter ==
    /\ pc = "h_456"
    /\ min_val' = initial_guess.f
    /\ min_args' = initial_guess
    /\ step' = StepStart
    /\ n_iter' = 0
    /\ pc' = "h_465"
    /\ UNCHANGED <<exc, loadVars, genVars, likVars, cov, e, apx, guessed, cur, cur_from,
                   calls, stage, initial_guess, diff, taken, cand, interrupted,
                   returned>>

\* lines 465-468: one more round
HillRound ==
    /\ pc = "h_465"
    /\ n_iter < iterations
    /\ n_iter' = n_iter + 1
    /\ taken' = 0
    /\ pc' = "h_468"
    /\ UNCHANGED <<exc, loadVars, genVars, likVars, cov, e, apx, guessed, cur, cur_from,
                   calls, stage, initial_guess, min_val, min_args, step, diff,
                   cand, interrupted, returned>>

\* line 465: the loop ends
HillExit ==
    /\ pc = "h_465"
    /\ ~(n_iter < iterations)
    /\ pc' = "h_478"
    /\ UNCHANGED <<exc, loadVars, genVars, likVars, optVars>>

\* lines 468-472
HillCandidate ==
    /\ pc = "h_468"
    /\ taken < MaxHillCand
    /\ taken' = taken + 1
    /\ \E f \in Vals :
           IF Improves(f, min_val)
           THEN /\ min_val' = f
                /\ cand' = Point("hillclimb", f)
                /\ pc' = "h_473"
           ELSE UNCHANGED <<min_val, cand, pc>>
    /\ UNCHANGED <<exc, loadVars, genVars, likVars, cov, e, apx, guessed, cur, cur_from,
                   calls, stage, initial_guess, min_args, step, diff, n_iter,
                   interrupted, returned>>

\* line 473
HillAccept ==
    /\ pc = "h_473"
    /\ min_args' = cand
    /\ cand' = NoPoint
    /\ pc' = "h_468"
    /\ UNCHANGED <<exc, loadVars, genVars, likVars, cov, e, apx, guessed, cur, cur_from,
                   calls, stage, initial_guess, min_val, step, diff, n_iter, taken,
                   interrupted, returned>>

\* lines 468, 474: no candidate is left, the round ends
HillRoundEnd ==
    /\ pc = "h_468"
    /\ pc' = "h_465"
    /\ UNCHANGED <<exc, loadVars, genVars, likVars, optVars>>

\* KeyboardInterrupt inside the try block (lines 464-474).  Of the locals only
\* min_args and n_iter are read after the loop; the others are dropped here.
HillInterrupt ==
    /\ pc \in {"h_465", "h_468", "h_473"}
    /\ interrupted' = TRUE
    /\ min_val' = 0
    /\ taken' = 0
    /\ cand' = NoPoint
    /\ pc' = "h_476"
    /\ UNCHANGED <<exc, loadVars, genVars, likVars, cov, e, apx, guessed, cur, cur_from,
                   calls, stage, initial_guess, min_args, step, diff, n_iter,
                   returned>>

\* KeyboardInterrupt before the try block, in the handler or after it
HillInterruptOutside ==
    /\ pc \in {"h_456", "h_476", "h_478"}
    /\ StrategyRaise

\* lines 475-476
HillExcept ==
    /\ pc = "h_476"
    /\ pc' = "h_478"
    /\ UNCHANGED <<exc, loadVars, genVars, likVars, optVars>>

\* lines 478-479
HillReturn ==
    /\ pc = "h_478"
    /\ StrategyReturn("hillclimb")

(***************************************************************************)
(* Runs of main.  The histogram files: an empty one, one with no level 2   *)
(* or more, one with levels 1 to 3.                                        *)
(***************************************************************************)
OptFiles == {<<>>, <<<<1, 2>>>>, <<<<1, 1>>, <<2, 2>>, <<3, 1>>>>}

OptArgs ==
    {a \in [input_histogram : OptFiles, autotrim : {None}, trim : {None},
            read_length : {DEFAULT_READ_LENGTH}, kmer_size : {DEFAULT_K},
            coverage : {None, 1}, error_rate : {1},
            ll_only : BOOLEAN, repeats : BOOLEAN, grid : BOOLEAN,
            hillclimbing : BOOLEAN] :
        /\ ~a.ll_only => a.coverage = None
        /\ a.ll_only => ~a.repeats /\ ~a.grid /\ ~a.hillclimbing}

InitOpt ==
    /\ pc = "main_486"
    /\ exc = "none"
    /\ args \in OptArgs
    /\ all_kmers = 0
    /\ unique_kmers = 0
    /\ observed_ones = 0
    /\ hist = <<>>
    /\ pmodel = <<1, 2>>
    /\ qs = <<1, 1, 1>>
    /\ p_cache = <<>>
    /\ r_cache = <<>>
    /\ p_recency = <<>>
    /\ r_recency = <<>>
    /\ p_last = NoLookup
    /\ r_last = NoLookup
    /\ ll = NoCall
    /\ rp = NoCall
    /\ n_fresh = 0
    /\ OptIdle
    /\ GenIdle

NextOpt ==
    \/ MainLoad
    \/ MainLlOnly
    \/ MainGuess
    \/ MainGuessLoglikelihood
    \/ MainFallback
    \/ CovMinimize
    \/ CovMinimizeInterrupt
    \/ CovCallStrategy
    \/ CovSkipStrategy
    \/ CovReport
    \/ GridEnter
    \/ GridRound
    \/ GridExit
    \/ GridCandidate
    \/ GridAccept
    \/ GridRoundEnd
    \/ GridInterrupt
    \/ GridInterruptOutside
    \/ GridExcept
    \/ GridReturn
    \/ HillEnter
    \/ HillRound
    \/ HillExit
    \/ HillCandidate
    \/ HillAccept
    \/ HillRoundEnd
    \/ HillInterrupt
    \/ HillInterruptOutside
    \/ HillExcept
    \/ HillReturn

SpecOpt == InitOpt /\ [][NextOpt]_vars

GridLoopPcs == {"g_412", "g_415", "g_420"}
GridPcs == GridLoopPcs \cup {"g_425", "g_427"}

(***************************************************************************)
(* C1.  The point minimize_grid returns has an objective value no greater  *)
(* than that of the initial guess, after any number of completed rounds    *)
(* and when the search is cut short by KeyboardInterrupt anywhere inside   *)
(* the loop: from line 403 on, min_args is such a point.                   *)
(***************************************************************************)
C1_GridNoWorseThanInitial ==
    /\ pc \in GridPcs => min_args.f <= initial_guess.f
    /\ returned.by = "grid" => returned.point.f <= returned.initial.f

\* an interrupted grid search has returned a point better than its initial guess
C1_Witness ==
    /\ returned.by = "grid"
    /\ returned.interrupted
    /\ returned.point.f < returned.initial.f
    /\ returned.point.src = "grid"

(***************************************************************************)
(* C2 as stated.  A KeyboardInterrupt raised while minimize, minimize_grid *)
(* or minimize_hillclimbing is executing never leaves the strategy: no     *)
(* KeyboardInterrupt reaches compute_coverage / compute_coverage_repeats.  *)
(* (Interrupts are delivered only while one of the three is executing.)    *)
(***************************************************************************)
C2_InterruptNeverSurfaces == exc # "KeyboardInterrupt"

(***************************************************************************)
(* The routines compute_coverage[_repeats] calls when the two optional     *)
(* strategies come in the given order, each starting from the result of    *)
(* the one before it.                                                      *)
(***************************************************************************)
Asked(order) == SelectSeq(order, Uses)

ExpectedCalls(order) ==
    LET names == <<"minimize">> \o Asked(order)
    IN  [n \in 1..Len(names) |->
            [strategy |-> names[n],
             start |-> IF n = 1 THEN "x0" ELSE names[n - 1]]]

IsPrefix(a, b) == Len(a) <= Len(b) /\ a = SubSeq(b, 1, Len(a))

(***************************************************************************)
(* C5 as amended.  The gradient-based minimization runs first, from the    *)
(* initial guess; when both use_grid and use_hillclimb are set, grid       *)
(* search runs after hill-climbing and starts from hill-climbing's         *)
(* result; when only one is set it starts from the gradient result.        *)
(***************************************************************************)
C5_HillclimbThenGrid ==
    /\ IsPrefix(calls, ExpectedCalls(<<"hillclimb", "grid">>))
    /\ pc = "done" /\ ~args.ll_only => calls = ExpectedCalls(<<"hillclimb", "grid">>)

\* a run with both strategies has completed
C5_Witness ==
    /\ pc = "done"
    /\ args.grid /\ args.hillclimbing
    /\ Len(calls) = 3
    /\ calls[3] = [strategy |-> "grid", start |-> "hillclimb"]

(***************************************************************************)
(* C5 as stated: when both are set, hill-climbing runs after grid search   *)
(* and starts from grid search's result.                                   *)
(***************************************************************************)
C5_GridThenHillclimb ==
    /\ IsPrefix(calls, ExpectedCalls(<<"grid", "hillclimb">>))
    /\ pc = "done" /\ ~args.ll_only => calls = ExpectedCalls(<<"grid", "hillclimb">>)

(***************************************************************************)
(* C7.  compute_coverage_apx returns (0, 1) whenever no distinct k-mer was *)
(* seen at least twice; main replaces that guess by (1, 0.5) before any    *)
(* optimizer routine is started, and nothing is raised on the way (the     *)
(* log-likelihood of the guess is -inf); the optimizer's starting point    *)
(* is never (0, 1).                                                        *)
(***************************************************************************)
C7_DegenerateGuessReplaced ==
    /\ (apx # <<>> /\ unique_kmers = 0) => apx = <<0, ErrOne>>
    /\ (apx = <<0, ErrOne>> /\ pc # "main_500") => ll.value = "-inf"
    /\ (apx = <<0, ErrOne>> /\ calls = <<>>) => exc = "none"
    /\ (apx = <<0, ErrOne>> /\ pc \notin {"main_500", "main_505"}) =>
           guessed = <<1, ErrOne \div 2>>
    /\ calls # <<>> => guessed # <<0, ErrOne>>

\* the optimizer has started from the fallback, no k-mer having been seen twice
C7_Witness ==
    /\ unique_kmers = 0
    /\ apx = <<0, ErrOne>>
    /\ guessed = <<1, ErrOne \div 2>>
    /\ calls # <<>>
    /\ exc = "none"

(***************************************************************************)
(* The step rule of minimize_grid: 1.1 at entry; replaced by               *)
(* 1 + (step - 1) * 0.75 (to the nearest unit) at the end of a round whose *)
(* improvement is below 1.0; unchanged by every other step of the search.  *)
(***************************************************************************)
ThreeQuarters(old, new) ==
    /\ 4 * (new - StepOne) <= 3 * (old - StepOne) + 2
    /\ 4 * (new - StepOne) >= 3 * (old - StepOne) - 2

GridStepRule ==
    /\ (pc = "g_402" /\ pc' = "g_412") => step' = StepStart
    /\ (pc = "g_415" /\ pc' = "g_412" /\ diff < One) => ThreeQuarters(step, step')
    /\ (pc = "g_415" /\ pc' = "g_412" /\ ~(diff < One)) => step' = step
    /\ (pc \in GridPcs /\ pc' \in GridPcs /\ ~(pc = "g_415" /\ pc' = "g_412")) =>
           step' = step
    /\ (pc \in GridPcs /\ pc' \in GridPcs) => step' <= step

(***************************************************************************)
(* C10 as amended.  When not interrupted, minimize_grid runs rounds until  *)
(* the first round that ends with both the round's improvement not above   *)
(* 0.1 and the step within 0.001 of 1, and returns right after that round, *)
(* never while only one of the two holds.  The step starts at 1.1, is      *)
(* replaced by 1 + (step - 1) * 0.75 exactly at the end of each round      *)
(* whose improvement is below 1.0 and is otherwise unchanged: it never     *)
(* increases and stays greater than 1.                                     *)
(***************************************************************************)
C10_GridTermination ==
    /\ [](pc \in GridPcs => (step > StepOne /\ step <= StepStart))
    /\ []((pc = "g_427" /\ ~interrupted) => (diff <= Tenth /\ step <= StepStop))
    /\ [][(pc = "g_412" /\ n_iter > 0 /\ pc' \in {"g_415", "g_427"}) =>
              (pc' = "g_427" <=> (diff <= Tenth /\ step <= StepStop))]_vars
    /\ [][GridStepRule]_vars

\* the search has ended after a round that improved the objective by 0.1 exactly
C10_Witness ==
    /\ pc = "g_427"
    /\ ~interrupted
    /\ diff = Tenth
    /\ step <= StepStop
    /\ n_iter >= 17

(***************************************************************************)
(* C10 as stated: the search returns only after a round whose improvement  *)
(* is below 0.1 (and whose step is within 0.001 of 1).                     *)
(***************************************************************************)
C10_ReturnsBelowTenth ==
    (pc = "g_427" /\ ~interrupted) => (diff < Tenth /\ step <= StepStop)


(***************************************************************************)
(* The candidates of minimize_grid and minimize_hillclimbing, with their   *)
(* coordinates (generate_grid, lines 379-400 and 433-454).                 *)
(*                                                                         *)
(* A coordinate is a float that the strategies only multiply by powers of  *)
(* step and compare with the bounds.  It is kept as <<sign, lg>>: 0.0 is   *)
(* <<0, 0>>, and sign * u ^ lg otherwise, for a fixed unit u > 1 with      *)
(* 1.1 = u ^ StepLog; 1.0 is <<1, 0>>.  Multiplying by step ** d adds      *)
(* d * (the logarithm of step) to lg and leaves 0.0 where it is.           *)
(***************************************************************************)
StepLog == 4
MaxGenRounds == 2
GenDepth == 1

Zero == <<0, 0>>
Unit == <<1, 0>>
Unbounded == <<>>

\* var * step ** d
Times(var, d, lstep) == IF var[1] = 0 THEN var ELSE <<var[1], var[2] + d * lstep>>

\* a <= b
Leq(a, b) ==
    IF a[1] # b[1] THEN a[1] < b[1]
    ELSE IF a[1] = 0 THEN TRUE
    ELSE IF a[1] = 1 THEN a[2] <= b[2]
    ELSE a[2] >= b[2]

\* lines 381-385 (434-438): d in range(-max_depth, max_depth + 1) if d != 0
generate_grid_single(var, lstep, max_depth) ==
    [n \in 1..(2 * max_depth) |->
        Times(var, IF n <= max_depth THEN n - max_depth - 1 ELSE n - max_depth, lstep)]

\* lines 393-394 (446-447)
InBoundsLowOnly(var, low, high) == low = Unbounded \/ Leq(low, var)

InBounds(var, low, high) ==
    /\ low = Unbounded \/ Leq(low, var)
    /\ high = Unbounded \/ Leq(var, high)

\* lines 387-395 (440-448); i counts from 0
filter_bounds(var_grid, i, bounds) ==
    IF ~bounds.given \/ Len(bounds.pairs) <= i \/ Len(Idx(bounds.pairs, i)) # 2
    THEN var_grid
    ELSE LET Keep(var) == InBounds(var, Idx(bounds.pairs, i)[1], Idx(bounds.pairs, i)[2])
         IN  SelectSeq(var_grid, Keep)

\* lines 396-399 of minimize_grid
GridVarGrids(point, lstep, max_depth, bounds) ==
    [i \in 1..Len(point) |->
        filter_bounds(generate_grid_single(point[i], lstep, max_depth), i - 1, bounds)]

\* lines 449-453 of minimize_hillclimbing; rnd is r = random.randrange(len(args))
HillVarGridsAll(point, rnd, lstep, max_depth, bounds) ==
    [i \in 1..Len(point) |->
        filter_bounds(generate_grid_single(point[i], lstep, max_depth), i - 1, bounds)]

HillVarGrids(point, rnd, lstep, max_depth, bounds) ==
    [i \in 1..Len(point) |->
        IF i - 1 = rnd
        THEN filter_bounds(generate_grid_single(point[i], lstep, max_depth), i - 1, bounds)
        ELSE <<point[i]>>]

\* itertools.product over the lists of var_grids, in its order
RECURSIVE Product(_)
Product(grids) ==
    IF grids = <<>> THEN <<<<>>>>
    ELSE LET rest == Product(Tail(grids))
             first == Head(grids)
         IN  [n \in 1..(Len(first) * Len(rest)) |->
                 <<first[((n - 1) \div Len(rest)) + 1]>> \o rest[((n - 1) % Len(rest)) + 1]]

\* line 422, on the logarithm of step: a smaller step, still above 1
DecayLog(lstep) == (3 * lstep + 2) \div 4

(***************************************************************************)
(* One call of a strategy, seen through its candidates.  The objective is  *)
(* any function of the point: a candidate may or may not be better than    *)
(* min_args, except that a candidate equal to min_args has its value and   *)
(* is not better.  The loop ends after at most MaxGenRounds rounds, or     *)
(* earlier (the test of line 412, KeyboardInterrupt).  generate_grid is    *)
(* called with max_depth = GenDepth (grid_depth, 3, in the source): the    *)
(* powers of step are step ** -GenDepth .. step ** GenDepth.               *)
(***************************************************************************)
Dims == 2

GenCoords == {Zero, <<1, 0 - 2>>, <<1, 2>>}

GenPoints == [1..Dims -> GenCoords]

\* bounds=((0.0, None), (0.0, 1.0)), lines 252 and 258
BoxBounds == <<<<Zero, Unbounded>>, <<Zero, Unit>>>>

GenBounds ==
    {[given |-> FALSE, pairs |-> <<>>],
     [given |-> TRUE, pairs |-> BoxBounds],
     [given |-> TRUE, pairs |-> <<BoxBounds[1]>>],
     [given |-> TRUE, pairs |-> <<<<Zero>>, BoxBounds[2]>>]}

genFrame == <<exc, loadVars, likVars, optVars>>

\* lines 402-410 (456-463)
GenEnter ==
    /\ pc = "gen_call"
    /\ gen_min_args' = gen_initial
    /\ gen_step' = StepLog
    /\ gen_iter' = 0
    /\ pc' = "gen_while"
    /\ UNCHANGED <<genFrame, gen_kind, gen_bounds, gen_initial, gen_r, gen_grid,
                   gen_taken, gen_args, gen_start>>

\* lines 412-415: a round of minimize_grid starts, generate_grid is called
GenGridRound ==
    /\ pc = "gen_while"
    /\ gen_kind = "grid"
    /\ gen_iter < MaxGenRounds
    /\ gen_iter' = gen_iter + 1
    /\ gen_grid' = Product(GridVarGrids(gen_min_args, gen_step, GenDepth, gen_bounds))
    /\ gen_start' = gen_min_args
    /\ gen_taken' = 0
    /\ pc' = "gen_for"
    /\ UNCHANGED <<genFrame, gen_kind, gen_bounds, gen_initial, gen_min_args,
                   gen_step, gen_r, gen_args>>

\* lines 465-468: a round of minimize_hillclimbing starts, generate_grid is called
GenHillRound ==
    /\ pc = "gen_while"
    /\ gen_kind = "hillclimb"
    /\ gen_iter < MaxGenRounds
    /\ gen_iter' = gen_iter + 1
    /\ \E rnd \in 0..(Len(gen_min_args) - 1) :
           /\ gen_r' = rnd
           /\ gen_grid' = Product(HillVarGrids(gen_min_args, rnd, gen_step, GenDepth,
                                               gen_bounds))
    /\ gen_start' = gen_min_args
    /\ gen_taken' = 0
    /\ pc' = "gen_for"
    /\ UNCHANGED <<genFrame, gen_kind, gen_bounds, gen_initial, gen_min_args,
                   gen_step, gen_args>>

\* lines 415-420 (468-473): the next candidate is evaluated
GenCandidate ==
    /\ pc = "gen_for"
    /\ gen_taken < Len(gen_grid)
    /\ gen_args' = gen_grid[gen_taken + 1]
    /\ gen_taken' = gen_taken + 1
    /\ \E better \in BOOLEAN :
           /\ better => gen_args' # gen_min_args
           /\ gen_min_args' = IF better THEN gen_args' ELSE gen_min_args
    /\ UNCHANGED <<pc, genFrame, gen_kind, gen_bounds, gen_initial, gen_step,
                   gen_iter, gen_r, gen_grid, gen_start>>

\* lines 421-423 (474): no candidate is left
GenRoundEnd ==
    /\ pc = "gen_for"
    /\ gen_taken = Len(gen_grid)
    /\ gen_step' \in IF gen_kind = "grid" THEN {gen_step, DecayLog(gen_step)}
                     ELSE {gen_step}
    /\ pc' = "gen_while"
    /\ UNCHANGED <<genFrame, gen_kind, gen_bounds, gen_initial, gen_min_args,
                   gen_iter, gen_r, gen_grid, gen_taken, gen_args, gen_start>>

\* lines 424-428 (475-479): the loop has ended or was interrupted, min_args is
\* returned and the other locals are gone
GenReturn ==
    /\ pc \in {"gen_while", "gen_for"}
    /\ pc' = "gen_done"
    /\ gen_step' = 0
    /\ gen_iter' = 0
    /\ gen_r' = None
    /\ gen_grid' = <<>>
    /\ gen_taken' = 0
    /\ gen_args' = <<>>
    /\ gen_start' = <<>>
    /\ UNCHANGED <<genFrame, gen_kind, gen_bounds, gen_initial, gen_min_args>>

InitGen ==
    /\ pc = "gen_call"
    /\ exc = "none"
    /\ args = [grid |-> FALSE]
    /\ all_kmers = 0
    /\ unique_kmers = 0
    /\ observed_ones = 0
    /\ hist = <<>>
    /\ LikIdle
    /\ OptIdle
    /\ gen_kind \in {"grid", "hillclimb"}
    /\ gen_bounds \in GenBounds
    /\ gen_initial \in GenPoints
    /\ gen_min_args = <<>>
    /\ gen_step = 0
    /\ gen_iter = 0
    /\ gen_r = None
    /\ gen_grid = <<>>
    /\ gen_taken = 0
    /\ gen_args = <<>>
    /\ gen_start = <<>>

NextGen ==
    \/ GenEnter
    \/ GenGridRound
    \/ GenHillRound
    \/ GenCandidate
    \/ GenRoundEnd
    \/ GenReturn

SpecGen == InitGen /\ [][NextGen]_vars

\* the coordinate indices in which two points differ
DiffCoords(a, b) == {i \in 1..Len(a) : a[i] # b[i]}

\* a candidate of the running round of minimize_hillclimbing has been evaluated
HillEvaluated == gen_kind = "hillclimb" /\ pc = "gen_for" /\ gen_taken > 0

(***************************************************************************)
(* C11 as amended.  In every iteration of minimize_hillclimbing, every     *)
(* evaluated candidate agrees with the best point held at the start of the *)
(* iteration in every coordinate but the randomly chosen one; in the       *)
(* chosen coordinate it differs when that coordinate of the best point is  *)
(* not 0 and equals it when it is 0.  So a candidate differs in at most    *)
(* one coordinate, and the best point changes in at most one coordinate    *)
(* per iteration.                                                          *)
(***************************************************************************)
C11_AtMostOneCoordinate ==
    /\ HillEvaluated =>
           /\ DiffCoords(gen_args, gen_start) \subseteq {gen_r + 1}
           /\ gen_start[gen_r + 1] # Zero => DiffCoords(gen_args, gen_start) = {gen_r + 1}
           /\ gen_start[gen_r + 1] = Zero => gen_args = gen_start
    /\ (gen_kind = "hillclimb" /\ gen_iter > 0 /\ pc \in {"gen_for", "gen_while"}) =>
           Cardinality(DiffCoords(gen_min_args, gen_start)) <= 1

\* a candidate along a coordinate that is 0 has been evaluated: it is the best
\* point itself
C11_Witness ==
    /\ HillEvaluated
    /\ gen_start[gen_r + 1] = Zero
    /\ gen_args = gen_start

(***************************************************************************)
(* C11 as stated: every evaluated candidate differs from the best point    *)
(* held at the start of the iteration in exactly one coordinate.           *)
(***************************************************************************)
C11_ExactlyOneCoordinate ==
    HillEvaluated => Cardinality(DiffCoords(gen_args, gen_start)) = 1

\* coordinate i (from 1) has a pair (low, high) in the bounds passed
Bounded(i) ==
    gen_bounds.given /\ i <= Len(gen_bounds.pairs) /\ Len(gen_bounds.pairs[i]) = 2

\* low <= value <= high, a None side being unbounded
Within(value, pair) ==
    /\ pair[1] = Unbounded \/ Leq(pair[1], value)
    /\ pair[2] = Unbounded \/ Leq(value, pair[2])

CoordInside(value, i) == Bounded(i) => Within(value, gen_bounds.pairs[i])

PointInside(point) == \A i \in 1..Len(point) : CoordInside(point[i], i)

\* a candidate of the running round of either strategy has been evaluated
Evaluated == pc = "gen_for" /\ gen_taken > 0

Untrimmed ==
    LET st == ReadLines(args.input_histogram, ReadStart)
    IN  Dense(st.hist, st.max_hist)

\* load_dist has returned a histogram that autotrim made shorter
AutotrimTruncated ==
    /\ pc = "main_489"
    /\ args.autotrim # None /\ args.autotrim # 0
    /\ Len(hist) < Len(Untrimmed)

(***************************************************************************)
(* C13 as stated.  When load_dist truncates the histogram by autotrim with *)
(* a precision, the entries it keeps have a cumulative share of the total  *)
(* mass that, rounded to that precision, equals 1.0.                       *)
(***************************************************************************)
C13_KeptShareSaturated ==
    AutotrimTruncated =>
        RoundsToOne(SumSeq(hist), SumSeq(Untrimmed), args.autotrim)

(***************************************************************************)
(* C14.  Each evaluation p_j(j), j in 1..hist_size - 1, of a closure that  *)
(* compute_probabilities_with_repeats returned reads only rows o and       *)
(* columns j that compute_repeat_table built, whether the truncation       *)
(* bound is 1, is not found, or is at most j; no call of                   *)
(* compute_loglikelihood_with_repeats raises IndexError.                   *)
(***************************************************************************)
C14_ReadsWithinTable ==
    /\ rp.fn # "none" =>
           \A j \in 1..(rp.hist_size - 1) :
               \A x \in Reads(rp, j) : Built(rp.p_oj, x[1], x[2])
    /\ ll.fn # "none" => ll.value # "IndexError"

\* compute_loglikelihood_with_repeats has evaluated p_j(j) for a j above the
\* truncation bound, reading the last row of the truncated table
C14_Witness ==
    /\ ll.fn = "compute_loglikelihood_with_repeats"
    /\ ~OutOfDomain(ll.c, ll.err)
    /\ rp.fn # "none"
    /\ rp.treshold = TresholdDefault
    /\ rp.treshold_o = 3
    /\ rp.hist_size = MaxHist
    /\ <<LastRow(rp.p_oj), MaxHist - 1>> \in Reads(rp, MaxHist - 1)
    /\ hist[MaxHist] # 0

=============================================================================
